---------------------------- MODULE Spec2Model ----------------------------
(***************************************************************************)
(* scholar2bibtex: the title comparator (same_text), the duplicate         *)
(* resolver (remove_duplicates) and the aggregation loop of main().        *)
(*                                                                         *)
(* Strings are sequences of one-character strings.  Indices i, j are the   *)
(* 0-based indices of the Python code; entries[i] of the code is           *)
(* entries[i + 1] here.                                                    *)
(***************************************************************************)
EXTENDS Integers, Sequences, FiniteSets

VARIABLES
    pool,       \* the list handed to remove_duplicates, as it was at the call
    entries,    \* the list remove_duplicates iterates over and pops from
    i,          \* enumerate index of the outer loop (line 16)
    j,          \* enumerate index of the inner loop (line 18)
    entry_a,    \* the entry bound by the outer loop (line 16)
    pc,         \* position in remove_duplicates
    dup,        \* the last "Duplicate:" pair found (line 23) and the entry popped for it
    text_a,     \* first argument of a same_text call
    text_b,     \* second argument of a same_text call
    verdict,    \* results of same_text(text_a, text_b) and same_text(text_b, text_a)
    config,     \* config['users'] of main(), each user with the state of its source
    next_user,  \* index of the user the loop of main() (line 33) takes next
    all_entries,\* the combined list of main() (line 30)
    mpc         \* position in main()

resolverVars == <<pool, entries, i, j, entry_a, pc, dup>>
cmpVars      == <<text_a, text_b, verdict>>
mainVars     == <<config, next_user, all_entries, mpc>>

vars == <<resolverVars, cmpVars, mainVars>>

-----------------------------------------------------------------------------
(* Bounds *)

\* longest pool handed to remove_duplicates
MaxLen == 5

\* length of the texts handed to same_text in SpecCmp
CmpLen == 11

\* most occurrences of the second letter in a text of SpecCmp
CmpMarks == 2

\* most users in the configuration of main()
MaxUsers == 2

-----------------------------------------------------------------------------
(* str.lower() *)

UpperCase == <<"A","B","C","D","E","F","G","H","I","J","K","L","M",
               "N","O","P","Q","R","S","T","U","V","W","X","Y","Z">>

LowerCase == <<"a","b","c","d","e","f","g","h","i","j","k","l","m",
               "n","o","p","q","r","s","t","u","v","w","x","y","z">>

LowerChar(c) ==
    IF \E k \in 1..26 : UpperCase[k] = c
    THEN LowerCase[CHOOSE k \in 1..26 : UpperCase[k] = c]
    ELSE c

lower(s) == [k \in 1..Len(s) |-> LowerChar(s[k])]

-----------------------------------------------------------------------------
(* difflib.SequenceMatcher(None, a, b).ratio() > threshold                 *)
(* No junk: isjunk is None and autojunk only acts on sequences of 200 or   *)
(* more elements.                                                          *)

\* length of the common run of a[x..ahi) and b[y..bhi) starting at x, y
RECURSIVE MatchLen(_, _, _, _, _, _)
MatchLen(a, b, x, y, ahi, bhi) ==
    IF x < ahi /\ y < bhi /\ a[x + 1] = b[y + 1]
    THEN 1 + MatchLen(a, b, x + 1, y + 1, ahi, bhi)
    ELSE 0

\* SequenceMatcher.find_longest_match: <<x, y, k>> with a[x..x+k) = b[y..y+k),
\* k maximal; of those the block starting earliest in a, and of those the one
\* starting earliest in b; <<alo, blo, 0>> when nothing matches.
find_longest_match(a, b, alo, ahi, blo, bhi) ==
    LET cand == (alo..(ahi - 1)) \X (blo..(bhi - 1))
        len  == [p \in cand |-> MatchLen(a, b, p[1], p[2], ahi, bhi)]
        best == IF cand = {} THEN 0
                ELSE CHOOSE k \in 0..(ahi - alo) :
                        /\ \E p \in cand : len[p] = k
                        /\ \A p \in cand : len[p] <= k
    IN  IF best = 0 THEN <<alo, blo, 0>>
        ELSE LET top == {p \in cand : len[p] = best}
                 x   == CHOOSE x \in alo..(ahi - 1) :
                           /\ \E p \in top : p[1] = x
                           /\ \A p \in top : x <= p[1]
                 y   == CHOOSE y \in blo..(bhi - 1) :
                           /\ <<x, y>> \in top
                           /\ \A p \in top : p[1] = x => y <= p[2]
             IN  <<x, y, best>>

\* sum of the sizes of SequenceMatcher.get_matching_blocks(): the longest
\* block, then the same to its left and to its right
RECURSIVE matches(_, _, _, _, _, _)
matches(a, b, alo, ahi, blo, bhi) ==
    LET m == find_longest_match(a, b, alo, ahi, blo, bhi)
        x == m[1]
        y == m[2]
        k == m[3]
    IN  IF k = 0 THEN 0
        ELSE k
             + (IF alo < x /\ blo < y
                THEN matches(a, b, alo, x, blo, y) ELSE 0)
             + (IF x + k < ahi /\ y + k < bhi
                THEN matches(a, b, x + k, ahi, y + k, bhi) ELSE 0)

\* numerator and denominator of the default threshold 0.9
ThresholdNum == 9
ThresholdDen == 10

\* same_text: ratio() = 2.0 * matches / (len(a) + len(b)), 1.0 for two empty
\* texts; similar when it is strictly above the threshold
same_text(a, b) ==
    LET T == Len(a) + Len(b)
        M == matches(a, b, 0, Len(a), 0, Len(b))
    IN  IF T = 0 THEN TRUE
        ELSE 2 * M * ThresholdDen > ThresholdNum * T

-----------------------------------------------------------------------------
(* Entries *)

Scholar == "scholar"
Bibtex  == "bibtex"
Methods == {Scholar, Bibtex}

\* titles of the bibliography entries of the model
Titles == { <<"G","r","a","p","h">>,
            <<"g","r","a","p","h","s">>,
            <<"g","r","a","p","h","y">>,
            <<"L","o","g","i","c">> }

\* the comparison of line 22 on the lower-cased titles of lines 17 and 21,
\* tabulated over Titles
SimTable ==
    [ta \in Titles |-> [tb \in Titles |-> same_text(lower(ta), lower(tb))]]

\* line 22: same_text(title_a, title_b) for the entries a and b
Similar(a, b) == SimTable[a.title][b.title]

NoEntry == [id |-> 0, title |-> <<>>, method |-> "none"]
NoDup   == [a |-> NoEntry, b |-> NoEntry, gone |-> NoEntry]

\* no same_text call has returned yet
NoVerdict == [called |-> FALSE, ab |-> FALSE, ba |-> FALSE]

\* the pool with the titles ts and the methods ms: entry k is the k-th
\* object of the list
MakePool(ts, ms) ==
    [k \in 1..Len(ts) |-> [id |-> k, title |-> ts[k], method |-> ms[k]]]

-----------------------------------------------------------------------------
(* remove_duplicates as a step function on its local state *)

\* a removal that fills the hole with the last entry
PopSwapLast(s, k) ==
    [x \in 1..(Len(s) - 1) |-> IF x = k + 1 THEN s[Len(s)] ELSE s[x]]

\* list.pop(k) for an index inside the list
Pop(s, k) == [x \in 1..(Len(s) - 1) |-> IF x <= k THEN s[x] ELSE s[x + 1]]

\* lines 25-30: the index popped for the duplicate pair (entry_a, entry_b)
PopIndex(a, b, ia, jb) ==
    IF a.method = Scholar THEN ia
    ELSE IF b.method = Scholar THEN jb
    ELSE jb

\* the state at the call
Start(p) ==
    [entries |-> p, i |-> 0, j |-> 0, entry_a |-> NoEntry, pc |-> "outer",
     dup |-> NoDup]

\* line 16: the outer iterator yields entries[i]
OuterFetch(s) == [s EXCEPT !.entry_a = s.entries[s.i + 1], !.j = 0, !.pc = "inner"]

\* line 16: the outer iterator is exhausted; lines 32-33
Return(s) == [s EXCEPT !.pc = "done"]

\* line 18: the inner iterator is exhausted; back to line 16
InnerExhausted(s) == [s EXCEPT !.i = s.i + 1, !.pc = "outer"]

\* the inner loop body without the test of lines 19-20
InnerBodyNoSelfSkip(s) ==
    LET entry_b == s.entries[s.j + 1]
        k       == PopIndex(s.entry_a, entry_b, s.i, s.j)
    IN  IF ~Similar(s.entry_a, entry_b) THEN [s EXCEPT !.j = s.j + 1]
        ELSE IF k >= Len(s.entries)
             THEN [s EXCEPT !.pc = "raised",
                            !.dup = [a |-> s.entry_a, b |-> entry_b, gone |-> NoEntry]]
             ELSE [s EXCEPT !.entries = Pop(s.entries, k),
                            !.j = s.j + 1,
                            !.dup = [a |-> s.entry_a, b |-> entry_b,
                                     gone |-> s.entries[k + 1]]]

\* lines 18-30 for the entry the inner iterator yields at index j
InnerBody(s) ==
    LET entry_b == s.entries[s.j + 1]
        k       == PopIndex(s.entry_a, entry_b, s.i, s.j)
    IN  IF s.i = s.j THEN [s EXCEPT !.j = s.j + 1]
        ELSE IF ~Similar(s.entry_a, entry_b) THEN [s EXCEPT !.j = s.j + 1]
        ELSE IF k >= Len(s.entries)
             THEN [s EXCEPT !.pc = "raised",
                            !.dup = [a |-> s.entry_a, b |-> entry_b, gone |-> NoEntry]]
             ELSE [s EXCEPT !.entries = Pop(s.entries, k),
                            !.j = s.j + 1,
                            !.dup = [a |-> s.entry_a, b |-> entry_b,
                                     gone |-> s.entries[k + 1]]]

Step(s) ==
    IF s.pc = "outer"
    THEN IF s.i < Len(s.entries) THEN OuterFetch(s) ELSE Return(s)
    ELSE IF s.pc = "inner"
    THEN IF s.j < Len(s.entries) THEN InnerBody(s) ELSE InnerExhausted(s)
    ELSE s

\* remove_duplicates(p): the final state, pc "done" with the returned list
\* in entries, or pc "raised" when a pop raised IndexError
RECURSIVE Run(_)
Run(s) == IF s.pc \in {"done", "raised"} THEN s ELSE Run(Step(s))

remove_duplicates(p) == Run(Start(p))

-----------------------------------------------------------------------------
(* Spec: remove_duplicates on every pool of at most MaxLen entries *)

Cur == [entries |-> entries, i |-> i, j |-> j, entry_a |-> entry_a, pc |-> pc,
        dup |-> dup]

Set(s) ==
    /\ entries' = s.entries
    /\ i' = s.i
    /\ j' = s.j
    /\ entry_a' = s.entry_a
    /\ pc' = s.pc
    /\ dup' = s.dup
    /\ UNCHANGED <<pool, cmpVars, mainVars>>

Init ==
    /\ \E n \in 0..MaxLen :
          \E ts \in [1..n -> Titles], ms \in [1..n -> Methods] :
             pool = MakePool(ts, ms)
    /\ entries = pool
    /\ i = 0
    /\ j = 0
    /\ entry_a = NoEntry
    /\ pc = "outer"
    /\ dup = NoDup
    /\ text_a = <<>>
    /\ text_b = <<>>
    /\ verdict = NoVerdict
    /\ config = <<>>
    /\ next_user = 0
    /\ all_entries = <<>>
    /\ mpc = "idle"

OuterNext == pc = "outer" /\ i < Len(entries) /\ Set(OuterFetch(Cur))

OuterDone == pc = "outer" /\ i >= Len(entries) /\ Set(Return(Cur))

InnerSkip ==
    /\ pc = "inner" /\ j < Len(entries) /\ i = j
    /\ Set(InnerBody(Cur))

InnerDistinct ==
    /\ pc = "inner" /\ j < Len(entries) /\ i # j
    /\ ~Similar(entry_a, entries[j + 1])
    /\ Set(InnerBody(Cur))

InnerDuplicate ==
    /\ pc = "inner" /\ j < Len(entries) /\ i # j
    /\ Similar(entry_a, entries[j + 1])
    /\ PopIndex(entry_a, entries[j + 1], i, j) < Len(entries)
    /\ Set(InnerBody(Cur))

InnerRaise ==
    /\ pc = "inner" /\ j < Len(entries) /\ i # j
    /\ Similar(entry_a, entries[j + 1])
    /\ PopIndex(entry_a, entries[j + 1], i, j) >= Len(entries)
    /\ Set(InnerBody(Cur))

InnerEnd == pc = "inner" /\ j >= Len(entries) /\ Set(InnerExhausted(Cur))

Next ==
    \/ OuterNext
    \/ OuterDone
    \/ InnerSkip
    \/ InnerDistinct
    \/ InnerDuplicate
    \/ InnerRaise
    \/ InnerEnd

Spec == Init /\ [][Next]_vars

-----------------------------------------------------------------------------
(* Properties of remove_duplicates, checked under Spec *)

\* every two entries of p have similar titles
AllSimilar(p) == \A x, y \in 1..Len(p) : Similar(p[x], p[y])

\* no two different entries of p have similar titles
NoSimilarPair(p) == \A x, y \in 1..Len(p) : x # y => ~Similar(p[x], p[y])

\* title similarity is symmetric on the entries of p
SymmetricOn(p) == \A x, y \in 1..Len(p) : Similar(p[x], p[y]) = Similar(p[y], p[x])

\* title similarity is an equivalence relation on the entries of p
EquivalenceOn(p) ==
    /\ \A x \in 1..Len(p) : Similar(p[x], p[x])
    /\ SymmetricOn(p)
    /\ \A x, y, z \in 1..Len(p) :
          Similar(p[x], p[y]) /\ Similar(p[y], p[z]) => Similar(p[x], p[z])

\* the positions of p whose entries are similar to the entry at x
Cluster(p, x) == {y \in 1..Len(p) : Similar(p[x], p[y])}

\* the positions of the list s that hold an entry with one of the ids
Holding(s, ids) == {k \in 1..Len(s) : s[k].id \in ids}

\* s is p with some entries left out: the same objects, in the same order
IsSubsequence(s, p) ==
    /\ \A k \in 1..Len(s) : s[k].id \in 1..Len(p) /\ s[k] = p[s[k].id]
    /\ \A k \in 1..(Len(s) - 1) : s[k].id < s[k + 1].id

\* C1: a pool of two or more mutually similar entries, exactly one of them
\* from a bibtex file and the others from scholar, is returned as that one
\* bibtex entry alone
C1_CuratedSurvives ==
    ( /\ pc = "done"
      /\ Len(pool) >= 2
      /\ AllSimilar(pool)
      /\ Cardinality({x \in 1..Len(pool) : pool[x].method = Bibtex}) = 1
      /\ \A x \in 1..Len(pool) : pool[x].method \in Methods )
    => /\ Len(entries) = 1
       /\ entries[1].method = Bibtex

\* C2: when similarity is an equivalence on the pool, every cluster of three
\* or more entries has exactly one survivor in the returned list
C2_ClusterCollapse ==
    (pc = "done" /\ EquivalenceOn(pool))
    => \A x \in 1..Len(pool) :
          Cardinality(Cluster(pool, x)) >= 3
          => Cardinality(Holding(entries, Cluster(pool, x))) = 1

\* C3: remove_duplicates applied to its own result returns that result
C3_Idempotent ==
    pc = "done"
    => /\ remove_duplicates(entries).pc = "done"
       /\ remove_duplicates(entries).entries = entries

\* C4: for a duplicate pair of which neither entry is from scholar, the entry
\* popped is the one standing later in the pool
C4_LaterDropped ==
    ( /\ dup # NoDup
      /\ pc # "raised"
      /\ dup.a.method # Scholar
      /\ dup.b.method # Scholar )
    => /\ dup.a.id # dup.b.id
       /\ dup.gone.id = IF dup.a.id > dup.b.id THEN dup.a.id ELSE dup.b.id

\* C5: a pool without a similar pair of titles is never changed: at every
\* step, and so at the return, the list is the pool as it was handed in
C5_NoFalseMerge ==
    NoSimilarPair(pool) => entries = pool /\ pc # "raised"

C5_Witness ==
    /\ pc = "done"
    /\ NoSimilarPair(pool)
    /\ Len(pool) >= 3
    /\ entries = pool

\* C6: on a pool of entries with non-empty titles and a symmetric similarity
\* between them, no pop is attempted outside the list (no IndexError)
C6_NeverRaises ==
    ( /\ SymmetricOn(pool)
      /\ \A x \in 1..Len(pool) : pool[x].title # <<>> /\ pool[x].method \in Methods )
    => pc # "raised"

\* C7: the list is always a subsequence of the pool handed in: the same
\* entries with their fields unchanged, none added or repeated, in the
\* original relative order
C7_Subsequence == IsSubsequence(entries, pool)

C7_Witness ==
    /\ pc = "done"
    /\ Len(entries) >= 2
    /\ Len(entries) < Len(pool)
    /\ IsSubsequence(entries, pool)

\* C10: every pop removes one of the two entries just found similar: the
\* outer entry when it is from scholar, the inner entry otherwise
C10_RemovesFromPair ==
    (dup # NoDup /\ pc # "raised")
    => dup.gone = IF dup.a.method = Scholar THEN dup.a ELSE dup.b

-----------------------------------------------------------------------------
(* SpecCmp: same_text on two texts, in both argument orders *)

\* the text of CmpLen letters with "b" at the positions marks, "a" elsewhere
MarkedText(marks) == [k \in 1..CmpLen |-> IF k \in marks THEN "b" ELSE "a"]

MarkSets == {m \in SUBSET (1..CmpLen) : Cardinality(m) <= CmpMarks}

InitCmp ==
    /\ \E ma \in MarkSets, mb \in MarkSets :
          /\ text_a = MarkedText(ma)
          /\ text_b = MarkedText(mb)
    /\ verdict = NoVerdict
    /\ pool = <<>>
    /\ entries = <<>>
    /\ i = 0
    /\ j = 0
    /\ entry_a = NoEntry
    /\ pc = "idle"
    /\ dup = NoDup
    /\ config = <<>>
    /\ next_user = 0
    /\ all_entries = <<>>
    /\ mpc = "idle"

Compare ==
    /\ verdict = NoVerdict
    /\ pc = "idle"
    /\ verdict' = [called |-> TRUE,
                   ab |-> same_text(text_a, text_b),
                   ba |-> same_text(text_b, text_a)]
    /\ UNCHANGED <<resolverVars, text_a, text_b, mainVars>>

NextCmp == Compare

SpecCmp == InitCmp /\ [][NextCmp]_vars

\* C9: same_text gives the same answer in both argument orders
C9_Symmetric == verdict.called => verdict.ab = verdict.ba

-----------------------------------------------------------------------------
(* SpecMain: the aggregation loop of main() and its call of                *)
(* remove_duplicates                                                       *)

\* the parsed contents of the bibliography files of the model
BibFiles ==
    { <<>>,
      << [title |-> <<"G","r","a","p","h">>, year |-> 2020] >>,
      << [title |-> <<"g","r","a","p","h","s">>, year |-> 2019],
         [title |-> <<"L","o","g","i","c">>, year |-> 2021] >> }

\* a configured user and the state of its source: the method configured,
\* the outcome of the HTTP request of download_citations, the state of the
\* bibliography file when load_bibtex opens and parses it, and its contents
\* (a file download_citations has just written can be opened)
Users ==
    { c \in [method   : {Scholar, Bibtex, "other"},
             download : {"ok", "request_error"},
             file     : {"ok", "unreadable", "unparsable"},
             bib      : BibFiles] :
        c.method = Scholar => c.file # "unreadable" }

\* the user the loop of main() takes next
Citation == config[next_user + 1]

\* lines 44-51: download_citations returned a path, or the method is bibtex
HasBibtexFile(c) ==
    \/ c.method = Bibtex
    \/ c.method = Scholar /\ c.download = "ok"

\* render_citations for user u: one entry per record of the file, tagged
\* with the method
Rendered(u) ==
    [k \in 1..Len(config[u].bib) |->
        [id     |-> 10 * u + k,
         title  |-> config[u].bib[k].title,
         method |-> config[u].method,
         year   |-> config[u].bib[k].year]]

\* e put behind the entries of the sorted list t that are not older than it
InsertByYear(e, t) ==
    LET k == Cardinality({x \in 1..Len(t) : t[x].year >= e.year})
    IN  SubSeq(t, 1, k) \o <<e>> \o SubSeq(t, k + 1, Len(t))

\* generate_html: entries.sort(key=year, reverse=True), a stable sort
RECURSIVE SortByYear(_)
SortByYear(s) ==
    IF s = <<>> THEN <<>>
    ELSE InsertByYear(s[Len(s)], SortByYear(SubSeq(s, 1, Len(s) - 1)))

InitMain ==
    /\ \E n \in 0..MaxUsers : config \in [1..n -> Users]
    /\ next_user = 0
    /\ all_entries = <<>>
    /\ mpc = "loop"
    /\ pool = <<>>
    /\ entries = <<>>
    /\ i = 0
    /\ j = 0
    /\ entry_a = NoEntry
    /\ pc = "idle"
    /\ dup = NoDup
    /\ text_a = <<>>
    /\ text_b = <<>>
    /\ verdict = NoVerdict

\* lines 54-56: neither scholar nor bibtex; continue
MainInvalidMethod ==
    /\ mpc = "loop" /\ next_user < Len(config)
    /\ Citation.method \notin Methods
    /\ next_user' = next_user + 1
    /\ UNCHANGED <<config, all_entries, mpc, resolverVars, cmpVars>>

\* lines 44-51: download_citations caught a RequestException and returned
\* None; continue
MainDownloadFailed ==
    /\ mpc = "loop" /\ next_user < Len(config)
    /\ Citation.method = Scholar
    /\ Citation.download = "request_error"
    /\ next_user' = next_user + 1
    /\ UNCHANGED <<config, all_entries, mpc, resolverVars, cmpVars>>

\* line 59: load_bibtex raises (open at renderer line 36, parse_string at
\* line 68); nothing in main() catches it
MainLoadRaises ==
    /\ mpc = "loop" /\ next_user < Len(config)
    /\ HasBibtexFile(Citation)
    /\ Citation.file # "ok"
    /\ mpc' = "aborted"
    /\ UNCHANGED <<config, next_user, all_entries, resolverVars, cmpVars>>

\* lines 59-80: load, render, write the user's files (which sorts the
\* entries) and extend the combined list
MainIngest ==
    /\ mpc = "loop" /\ next_user < Len(config)
    /\ HasBibtexFile(Citation)
    /\ Citation.file = "ok"
    /\ all_entries' = all_entries \o SortByYear(Rendered(next_user + 1))
    /\ next_user' = next_user + 1
    /\ UNCHANGED <<config, mpc, resolverVars, cmpVars>>

\* line 83: all_entries = remove_duplicates(all_entries)
MainDedup ==
    /\ mpc = "loop" /\ next_user >= Len(config)
    /\ LET r == remove_duplicates(all_entries)
       IN  /\ pool' = all_entries
           /\ entries' = r.entries
           /\ i' = r.i
           /\ j' = r.j
           /\ entry_a' = r.entry_a
           /\ pc' = r.pc
           /\ dup' = r.dup
           /\ all_entries' = IF r.pc = "done" THEN r.entries ELSE all_entries
           /\ mpc' = IF r.pc = "done" THEN "deduped" ELSE "dedup_raised"
    /\ UNCHANGED <<config, next_user, cmpVars>>

NextMain ==
    \/ MainInvalidMethod
    \/ MainDownloadFailed
    \/ MainLoadRaises
    \/ MainIngest
    \/ MainDedup

SpecMain == InitMain /\ [][NextMain]_vars

\* the ids of the entries of the users whose ingestion succeeds
IngestedIds ==
    UNION { {Rendered(u)[k].id : k \in 1..Len(config[u].bib)} :
              u \in {v \in 1..Len(config) :
                        HasBibtexFile(config[v]) /\ config[v].file = "ok"} }

\* C8: a user whose ingestion fails does not stop main(): every user is
\* taken, and the pool handed to remove_duplicates holds the entries of
\* exactly the users whose ingestion succeeded
C8_PartialFailureTolerance ==
    /\ mpc = "aborted" => next_user + 1 >= Len(config)
    /\ mpc \in {"deduped", "dedup_raised"}
       => /\ next_user = Len(config)
          /\ {pool[k].id : k \in 1..Len(pool)} = IngestedIds

=============================================================================
